---- MODULE Spec2Model ----
(***************************************************************************)
(* Model of the Rubrik Security Cloud Oracle tools: the identity resolver  *)
(* (OracleDatabase.get_oracle_db_id, RubrikCluster.get_cluster_id), the    *)
(* target resolver (OracleTarget), the session (RubrikConnection: its      *)
(* construction, graphql_query, async_requests_wait, delete_session) and   *)
(* the command line entry points that drive them.                          *)
(*                                                                         *)
(* The remote catalog (the GraphQL server) is the environment: it is       *)
(* chosen in Init and never changes during one run.  Every graphql_query   *)
(* either answers from the catalog or raises a transport error.            *)
(***************************************************************************)
EXTENDS Integers, Sequences, FiniteSets, TLC

VARIABLES
    nodes,                  \* catalog: the OracleDatabase objects known to the server, in API order
    args,                   \* constructor arguments [database_name, database_host, cluster_name]
    self,                   \* OracleDatabase fields [id, cluster_id, cluster_name, timezone, dataguard]
    name_match_databases,   \* local of get_oracle_db_id: the step-1 candidates
    dg_ids,                 \* local of get_oracle_db_id: the collected Data-Guard tuples
    branch,                 \* which branch of get_oracle_db_id ran: "none", "zero", "one", "multi"
    pc,                     \* position of the run
    err,                    \* the exception that ended the run, "none" while there is none
    msg,                    \* which message the raised error carries, "none" while there is none
    deleted,                \* number of delete_session calls on the connection
    used_after_release,     \* a graphql_query was issued after delete_session
    cmd,                    \* the command line entry point being run, "library" for a bare construction
    hosts,                  \* catalog: the OracleHost objects known to the server, in API order
    racs,                   \* catalog: the OracleRac objects known to the server, in API order
    target,                 \* OracleTarget fields [name, cluster_id, rac, id, rac_name]
    keyfile,                \* the JSON object of the key file, NoKeyfile when the file does not exist
    environ,                \* os.environ: rsc_client_id, rsc_client_secret, rsc_access_token_uri
    response,               \* what the token endpoint answers to the POST
    conn,                   \* RubrikConnection fields [config, access_token, headers, posts, executed]
    wait,                   \* async_requests_wait [status, timeout, elapsed, polls, sleeps, oracle_request]
    mount,                  \* options of rubrik_oracle_db_mount [no_wait, timeout, status]
    pool,                   \* the worker pool of rubrik_oracle_backup_report [created, started, element_list]
    first                   \* the outcome of the resolution before the API returned the nodes in another order

dbvars == <<nodes, args, self, name_match_databases, dg_ids, branch>>
targetvars == <<hosts, racs, target>>
sessionvars == <<keyfile, environ, response, conn, wait, mount>>
vars == <<nodes, args, self, name_match_databases, dg_ids, branch, pc, err, msg, deleted,
          used_after_release, cmd, hosts, racs, target,
          keyfile, environ, response, conn, wait, mount, pool, first>>

----------------------------------------------------------------------------
(* Bounds *)

MaxNodes == 2

\* the timeouts, in minutes, a caller passes to async_requests_wait
MaxTimeout == 1

\* the clock units that may pass between two reads of the clock that follow
\* each other
MaxDrift == 1

----------------------------------------------------------------------------
(* Values *)

None == "None"

\* Host and path names are character sequences, so that Python's substring
\* test `host in path_name` is computed and not assumed.
NoHost == <<>>
HostNames == { <<"b">> }
PathSpace == { << <<"a", "b">> >>, << <<"a">>, <<"c">> >> }

DbNames == {"N1", "U1"}
IdPool == <<"fid1", "fid2", "fid3", "fid4", "fid5">>
GroupList == <<"dg1", "dg2">>
ClusterList == <<"c1", "c2", "c3">>

\* The clusters known to the server: c2 and c3 carry the same name.
ClusterRec(c) ==
    [id |-> c,
     name |-> IF c = "c1" THEN "CA" ELSE "CB",
     timezone |-> IF c = "c1" THEN "UTC" ELSE "EST"]

ClusterNames == {"", "CA", "CB", "CZ"}

\* The cluster that owns a Data-Guard group object.
GroupCluster(g) == IF g = "dg1" THEN "c1" ELSE "c2"

\* The shapes a catalog object can take.  A flagged object (live mount,
\* relic, replicated, other name) is otherwise a plain standalone database.
PlainShapes ==
    [name : {"N1"}, cluster : {"c1", "c2"},
     dataGuardType : {"NON_DATA_GUARD"}, dataGuardGroup : {None},
     dbUniqueName : {"N1"},
     isLiveMount : {FALSE}, isRelic : {FALSE}, isReplicated : {FALSE},
     physicalPath : PathSpace]

MemberShapes ==
    [name : {"N1"}, cluster : {"c1", "c2"},
     dataGuardType : {"DATA_GUARD_MEMBER"}, dataGuardGroup : {"dg1", "dg2"},
     dbUniqueName : {"N1", "U1"},
     isLiveMount : {FALSE}, isRelic : {FALSE}, isReplicated : {FALSE},
     physicalPath : PathSpace]

FlaggedShapes ==
    { [name |-> n, cluster |-> "c1",
       dataGuardType |-> "NON_DATA_GUARD", dataGuardGroup |-> None,
       dbUniqueName |-> n,
       isLiveMount |-> lm, isRelic |-> rl, isReplicated |-> rp,
       physicalPath |-> << <<"a", "b">> >>] :
      n \in {"N1", "N2"}, lm \in BOOLEAN, rl \in BOOLEAN, rp \in BOOLEAN }

NodeShapes ==
    PlainShapes \cup MemberShapes \cup
    { s \in FlaggedShapes :
        \/ s.name = "N2" /\ ~s.isLiveMount /\ ~s.isRelic /\ ~s.isReplicated
        \/ s.name = "N1" /\ s.isLiveMount /\ ~s.isRelic /\ ~s.isReplicated
        \/ s.name = "N1" /\ ~s.isLiveMount /\ s.isRelic /\ ~s.isReplicated
        \/ s.name = "N1" /\ ~s.isLiveMount /\ ~s.isRelic /\ s.isReplicated }

WithId(s, i) ==
    [id |-> IdPool[i], name |-> s.name, cluster |-> ClusterRec(s.cluster),
     dataGuardType |-> s.dataGuardType,
     dataGuardGroup |-> [id |-> s.dataGuardGroup],
     dbUniqueName |-> s.dbUniqueName,
     isLiveMount |-> s.isLiveMount, isRelic |-> s.isRelic,
     isReplicated |-> s.isReplicated, physicalPath |-> s.physicalPath]

\* The OracleHost and OracleRac objects: names are character sequences, a
\* RAC has the names of its nodes.
TargetNames == { <<"n">>, <<"N">> }

HostShapes ==
    [name : { <<"n">>, <<"r">> }, cluster : {"c1", "c2"}, isRelic : BOOLEAN]

RacShapes ==
    [name : { <<"n">>, <<"r">> }, cluster : {"c1", "c2"}, isRelic : BOOLEAN,
     nodes : { << <<"n", "1">> >>, << <<"x">> >>, << <<"N", "1">>, <<"n", "2">> >> }]

HostWithId(s, i) ==
    [id |-> IdPool[i], name |-> s.name, cluster |-> ClusterRec(s.cluster),
     isRelic |-> s.isRelic]

RacWithId(s, i) ==
    [id |-> IdPool[i], name |-> s.name, cluster |-> ClusterRec(s.cluster),
     isRelic |-> s.isRelic,
     nodes |-> [k \in 1..Len(s.nodes) |-> [nodeName |-> s.nodes[k]]]]

HostCatalogs(n) ==
    { [i \in 1..n |-> HostWithId(f[i], i)] : f \in [1..n -> HostShapes] }

RacCatalogs(n) ==
    { [i \in 1..n |-> RacWithId(f[i], i)] : f \in [1..n -> RacShapes] }

NoTarget == [name |-> <<>>, cluster_id |-> None, rac |-> FALSE, id |-> None,
             rac_name |-> <<>>]

Catalogs(n) ==
    { [i \in 1..n |-> WithId(f[i], i)] : f \in [1..n -> NodeShapes] }

----------------------------------------------------------------------------
(* Python helpers *)

\* `sub == s` in place of `sub in s`
Contains_Equal(sub, s) == sub = s

\* `sub in s` on strings
Contains(sub, s) ==
    \E i \in 0..(Len(s) - Len(sub)) : SubSeq(s, i + 1, i + Len(sub)) = sub

\* truthiness of an optional argument: None and "" are both falsy, and both
\* are written as the empty value here
TruthyHost(h) == h # NoHost
TruthyName(n) == n # ""

\* str.lower()
LowerChar(c) == IF c = "N" THEN "n" ELSE IF c = "R" THEN "r" ELSE c
Lower(s) == [i \in 1..Len(s) |-> LowerChar(s[i])]

\* list.count(x)
Count(seq, x) == Cardinality({ i \in 1..Len(seq) : seq[i] = x })

\* [f(x) for x in seq]
RECURSIVE MapTuple(_)
MapTuple(seq) ==
    IF seq = <<>> THEN <<>>
    ELSE LET node == Head(seq) IN
         << <<node.dataGuardGroup.id, node.cluster.id, node.cluster.name,
              node.cluster.timezone>> >> \o MapTuple(Tail(seq))

----------------------------------------------------------------------------
(* The server side of the queries *)

\* clusterConnection(filter: {name})
clusterConnection(name) ==
    LET Hit(c) == ClusterRec(c).name = name
        hits == SelectSeq(ClusterList, Hit)
    IN [i \in 1..Len(hits) |-> ClusterRec(hits[i])]

\* oracleDatabases(filter): IS_RELIC and NAME always, then CLUSTER_ID when a
\* cluster was named and IS_REPLICATED = false when none was.
oracleDatabases(cat, relic, cluster_name, cluster_id, database_name) ==
    LET Hit(n) ==
            /\ n.isRelic = relic
            /\ n.name = database_name
            /\ IF TruthyName(cluster_name) THEN n.cluster.id = cluster_id
                                           ELSE n.isReplicated = FALSE
    IN SelectSeq(cat, Hit)

\* oracleTopLevelDescendants(typeFilter: ORACLE_DATA_GUARD_GROUP): every
\* group with the databases that are its members.
oracleTopLevelDescendants(cat, cluster_name, cluster_id) ==
    LET InCluster(g) == TruthyName(cluster_name) => GroupCluster(g) = cluster_id
        groups == SelectSeq(GroupList, InCluster)
        Members(g) ==
            LET IsMember(n) == n.dataGuardType = "DATA_GUARD_MEMBER"
                               /\ n.dataGuardGroup.id = g
            IN SelectSeq(cat, IsMember)
    IN [i \in 1..Len(groups) |->
          [id |-> groups[i], cluster |-> ClusterRec(GroupCluster(groups[i])),
           descendantConnection |-> Members(groups[i])]]

----------------------------------------------------------------------------
(* OracleDatabase.get_oracle_db_id *)

\* TakeNode without the Data-Guard redirection: the member's own id is kept
TakeNode_OwnId(me, node) ==
    [id |-> node.id,
     dataguard |-> IF node.dataGuardType = "DATA_GUARD_MEMBER"
                   THEN TRUE ELSE me.dataguard,
     cluster_id |-> node.cluster.id,
     cluster_name |-> node.cluster.name,
     timezone |-> node.cluster.timezone]

\* the assignments made for one chosen node (one candidate, or a host match)
TakeNode(me, node) ==
    [id |-> IF node.dataGuardType = "DATA_GUARD_MEMBER"
            THEN node.dataGuardGroup.id ELSE node.id,
     dataguard |-> IF node.dataGuardType = "DATA_GUARD_MEMBER"
                   THEN TRUE ELSE me.dataguard,
     cluster_id |-> node.cluster.id,
     cluster_name |-> node.cluster.name,
     timezone |-> node.cluster.timezone]

\* `self.database_host in path['name']` for some entry of the physical path
HostInPath(host, node) ==
    \E k \in 1..Len(node.physicalPath) : Contains(host, node.physicalPath[k])

\* the loop over the candidates when a host was supplied: every node with a
\* matching path entry overwrites the fields set by the one before it
RECURSIVE HostScan(_, _, _)
HostScan(me, cands, host) ==
    IF cands = <<>> THEN me
    ELSE HostScan(IF HostInPath(host, Head(cands)) THEN TakeNode(me, Head(cands))
                                                    ELSE me,
                  Tail(cands), host)

\* the Data-Guard tuples of the candidates when no host was supplied
MemberTuples(cands) ==
    LET IsMember(n) == n.dataGuardType = "DATA_GUARD_MEMBER"
    IN MapTuple(SelectSeq(cands, IsMember))

\* `dg_ids.count(dg_ids[0]) >= 1` in place of the comparison with len(dg_ids)
AllSameAsFirst_AnyFirst(ids) == Count(ids, ids[1]) >= 1

\* `dg_ids.count(dg_ids[0]) == len(dg_ids)`
AllSameAsFirst(ids) == Count(ids, ids[1]) = Len(ids)

\* GroupTuples matching on `name` in place of `dbUniqueName`
RECURSIVE GroupTuples_ByName(_, _)
GroupTuples_ByName(groups, database_name) ==
    IF groups = <<>> THEN <<>>
    ELSE LET g == Head(groups)
             Hit(c) == c.name = database_name
             hits == SelectSeq(g.descendantConnection, Hit)
         IN [i \in 1..Len(hits) |->
               <<g.id, g.cluster.id, g.cluster.name, g.cluster.timezone>>]
            \o GroupTuples_ByName(Tail(groups), database_name)

\* the tuples collected by the fallback scan of the Data-Guard groups
RECURSIVE GroupTuples(_, _)
GroupTuples(groups, database_name) ==
    IF groups = <<>> THEN <<>>
    ELSE LET g == Head(groups)
             Hit(c) == c.dbUniqueName = database_name
             hits == SelectSeq(g.descendantConnection, Hit)
         IN [i \in 1..Len(hits) |->
               <<g.id, g.cluster.id, g.cluster.name, g.cluster.timezone>>]
            \o GroupTuples(Tail(groups), database_name)

\* the fields after a collapse onto the first tuple
TakeTuple(me, t, flag) ==
    [id |-> t[1], cluster_id |-> t[2], cluster_name |-> t[3],
     timezone |-> t[4], dataguard |-> flag]

\* RubrikConnection.graphql_query is about to be called: note a use of the
\* connection after its session was released
NoteQuery == used_after_release' = (used_after_release \/ deleted > 0)

\* RubrikConnection.delete_session
delete_session == deleted' = deleted + 1

\* a raise that does not end the process: the caller goes on
ReleaseAndRaise_Continue(e, m) ==
    /\ delete_session
    /\ err' = e
    /\ msg' = m
    /\ pc' = "get_details"
\* `self.connection.delete_session(); raise <error>(<message>)`: raising any
\* NoTraceBackWithLineNumber exits the process
ReleaseAndRaise(e, m) ==
    /\ delete_session
    /\ err' = e
    /\ msg' = m
    /\ pc' = "exit"

\* the constructor returned
Resolved ==
    /\ pc' = IF cmd = "library" THEN "resolved" ELSE "get_details"
    /\ UNCHANGED <<err, msg, deleted>>

\* RubrikCluster.get_cluster_id, called at both places of get_oracle_db_id
\* that name a cluster
get_cluster_id ==
    /\ pc \in {"cluster_step1", "cluster_fallback"}
    /\ NoteQuery
    /\ LET rubrik_cluster == clusterConnection(self.cluster_name) IN
       IF Len(rubrik_cluster) = 0
       THEN /\ ReleaseAndRaise("OracleClusterError", "no_clusters_found")
            /\ UNCHANGED self
       ELSE IF Len(rubrik_cluster) = 1
       THEN /\ self' = IF pc = "cluster_step1"
                       THEN [self EXCEPT !.cluster_id = rubrik_cluster[1].id]
                       ELSE self
            /\ pc' = IF pc = "cluster_step1" THEN "query_databases"
                                             ELSE "query_dg_groups"
            /\ UNCHANGED <<err, msg, deleted>>
       ELSE /\ ReleaseAndRaise("OracleClusterError", "multiple_clusters_found")
            /\ UNCHANGED self
    /\ UNCHANGED <<nodes, args, name_match_databases, dg_ids, branch, cmd, pool, first>>
    /\ UNCHANGED <<targetvars, sessionvars>>

\* get_oracle_db_id from the oracleDatabases query on: the live-mount filter
\* and the branches for one candidate and for several candidates
get_oracle_db_id ==
    /\ pc = "query_databases"
    /\ NoteQuery
    /\ LET all_name_match_databases ==
               oracleDatabases(nodes, FALSE, self.cluster_name, self.cluster_id,
                               args.database_name)
           NotLiveMount(n) == n.isLiveMount = FALSE
           cands == SelectSeq(all_name_match_databases, NotLiveMount)
       IN
       /\ name_match_databases' = cands
       /\ IF Len(cands) = 0
          THEN /\ branch' = "zero"
               /\ pc' = IF TruthyName(self.cluster_name) THEN "cluster_fallback"
                                                          ELSE "query_dg_groups"
               /\ UNCHANGED <<self, dg_ids, err, msg, deleted>>
          ELSE IF Len(cands) = 1
          THEN /\ branch' = "one"
               /\ self' = TakeNode(self, cands[1])
               /\ Resolved
               /\ UNCHANGED dg_ids
          ELSE IF TruthyHost(args.database_host)
          THEN /\ branch' = "multi"
               /\ self' = HostScan(self, cands, args.database_host)
               /\ UNCHANGED dg_ids
               /\ IF self'.id = None
                  \* `hosts` is assigned only when no host was supplied, so
                  \* building the message raises UnboundLocalError
                  THEN ReleaseAndRaise("UnboundLocalError", "none")
                  ELSE Resolved
          ELSE /\ branch' = "multi"
               /\ dg_ids' = MemberTuples(cands)
               /\ IF dg_ids' = <<>>
                  THEN /\ ReleaseAndRaise("OracleDatabaseError", "multiple_databases")
                       /\ UNCHANGED self
                  ELSE IF AllSameAsFirst(dg_ids')
                  THEN /\ self' = TakeTuple(self, dg_ids'[1], TRUE)
                       /\ Resolved
                  ELSE /\ ReleaseAndRaise("OracleDatabaseError", "multiple_dg_groups")
                       /\ UNCHANGED self
    /\ UNCHANGED <<nodes, args, cmd, pool, first>>
    /\ UNCHANGED <<targetvars, sessionvars>>

\* get_oracle_db_id when step 1 found nothing: the scan of the Data-Guard
\* groups for a member whose dbUniqueName is the database name
get_oracle_db_id_fallback ==
    /\ pc = "query_dg_groups"
    /\ NoteQuery
    /\ LET cluster_id == IF TruthyName(self.cluster_name)
                         THEN clusterConnection(self.cluster_name)[1].id
                         ELSE None
           dg_groups == oracleTopLevelDescendants(nodes, self.cluster_name, cluster_id)
           ids == GroupTuples(dg_groups, args.database_name)
       IN
       /\ dg_ids' = ids
       /\ IF ids = <<>>
          THEN /\ ReleaseAndRaise("OracleDatabaseError", "no_database_found")
               /\ UNCHANGED self
          ELSE IF AllSameAsFirst(ids)
          THEN /\ self' = TakeTuple(self, ids[1], TRUE)
               /\ Resolved
          ELSE /\ ReleaseAndRaise("OracleDatabaseError", "multiple_dg_groups")
               /\ self' = [self EXCEPT !.dataguard = TRUE]
    /\ UNCHANGED <<nodes, args, name_match_databases, branch, cmd, pool, first>>
    /\ UNCHANGED <<targetvars, sessionvars>>

\* a graphql_query that raises: nothing catches it, the run ends with the
\* session still open
QueryPoints ==
    {"cluster_step1", "cluster_fallback", "query_databases", "query_dg_groups",
     "query_hosts", "query_racs", "query_racs_by_host",
     "get_details", "get_log_backup_details", "get_recovery_ranges",
     "list_databases"}

graphql_query_error ==
    /\ pc \in QueryPoints
    /\ NoteQuery
    /\ err' = "TransportError"
    /\ msg' = "none"
    /\ pc' = "exit"
    /\ UNCHANGED <<sessionvars, dbvars, targetvars, deleted, cmd, pool, first>>

----------------------------------------------------------------------------
(* The session: RubrikConnection *)

\* a key the JSON object of the key file does not have
Absent == "absent"
\* a value of whitespace only
Blank == " "

CredentialKeys == {"client_id", "client_secret", "access_token_uri"}

\* os.path.exists(keyfile) is false
NoKeyfile ==
    [exists |-> FALSE, client_id |-> Absent, client_secret |-> Absent,
     access_token_uri |-> Absent, name |-> Absent]

\* the key files: each credential is missing, empty, blank or set, and the
\* name is missing or set
Keyfiles ==
    [exists : {TRUE},
     client_id : {Absent, "", Blank, "v"},
     client_secret : {Absent, "", Blank, "v"},
     access_token_uri : {Absent, "", Blank, "v"},
     name : {Absent, "v"}]

\* os.environ.get gives None for a variable that is not set; a value of the
\* environment ("e") differs from a value of the key file ("v")
Environments ==
    [client_id : {None, "", "e"},
     client_secret : {None, "", "e"},
     access_token_uri : {None, "", "e"}]

\* the answers of the token endpoint: status 0 stands for no answer at all
\* (requests.post raises), json tells whether the body parses, fields are the
\* keys of the parsed body
Responses ==
    { [status |-> 0, json |-> FALSE, fields |-> {}] }
    \cup [status : {200, 401, 500}, json : {TRUE},
          fields : { {"access_token"}, {"message"} }]
    \cup [status : {200, 401, 500}, json : {FALSE}, fields : { {} }]

\* str.strip() on the values of the key file
Strip(v) == IF v = Blank THEN "" ELSE v

\* the truth value of a configuration value
TruthyValue(v) == v \notin {None, ""}

\* self.config before the key file is read
DefaultConfig ==
    [client_id |-> None, client_secret |-> None, name |-> None,
     access_token_uri |-> None]

\* RubrikConnection right after `self.config = {...}`
NewConnection ==
    [config |-> DefaultConfig, access_token |-> None, headers |-> FALSE,
     posts |-> 0, executed |-> FALSE]

\* no call of async_requests_wait yet; status is the state the server holds
\* for the awaited request
NoWait == [status |-> None, timeout |-> 0, elapsed |-> 0, polls |-> 0, sleeps |-> 0,
           oracle_request |-> None]

NoMount == [no_wait |-> FALSE, timeout |-> 0, status |-> None]

\* async_requests_wait: the states that end the wait
terminal_states == {"FAILED", "CANCELED", "SUCCEEDED"}

\* the states the server may hold for the awaited request
RequestStatuses == terminal_states \cup {"RUNNING"}

\* rubrik_oracle_backup_report before its ThreadPoolExecutor exists
NoPool == [created |-> FALSE, started |-> 0, element_list |-> <<>>]

\* no resolution has ended yet
NoOutcome == [done |-> FALSE, id |-> None, cluster_id |-> None, dataguard |-> FALSE,
              err |-> "none", msg |-> "none"]

\* no RubrikConnection was constructed
NoSession ==
    /\ keyfile = NoKeyfile
    /\ environ = [client_id |-> None, client_secret |-> None, access_token_uri |-> None]
    /\ response = [status |-> 0, json |-> FALSE, fields |-> {}]
    /\ conn = NewConnection
    /\ wait = NoWait

\* a RubrikConnection whose constructor returned: the session is open
OpenSession ==
    /\ keyfile = NoKeyfile
    /\ environ = [client_id |-> "e", client_secret |-> "e", access_token_uri |-> "e"]
    /\ response = [status |-> 200, json |-> TRUE, fields |-> {"access_token"}]
    /\ conn = [config |-> [client_id |-> "e", client_secret |-> "e", name |-> None,
                           access_token_uri |-> "e"],
               access_token |-> "v", headers |-> TRUE, posts |-> 1,
               executed |-> FALSE]
    /\ wait = NoWait

----------------------------------------------------------------------------
(* Construction of an OracleDatabase on an open connection *)

Arguments ==
    [database_name : DbNames, database_host : {NoHost} \cup HostNames,
     cluster_name : ClusterNames]

\* OracleDatabase.__init__ up to the call of get_oracle_db_id
NewDatabase(a) ==
    [id |-> None, cluster_id |-> None, cluster_name |-> a.cluster_name,
     timezone |-> None, dataguard |-> FALSE]

\* The server's catalog and the caller's arguments, before get_oracle_db_id
Init ==
    /\ \E n \in 0..MaxNodes : nodes \in Catalogs(n)
    /\ args \in Arguments
    /\ self = NewDatabase(args)
    /\ name_match_databases = <<>>
    /\ dg_ids = <<>>
    /\ branch = "none"
    /\ pc = IF TruthyName(args.cluster_name) THEN "cluster_step1" ELSE "query_databases"
    /\ err = "none"
    /\ msg = "none"
    /\ deleted = 0
    /\ used_after_release = FALSE
    /\ cmd = "library"
    /\ OpenSession
    /\ mount = NoMount
    /\ pool = NoPool
    /\ first = NoOutcome
    /\ hosts = <<>>
    /\ racs = <<>>
    /\ target = NoTarget

Next ==
    \/ get_cluster_id
    \/ get_oracle_db_id
    \/ get_oracle_db_id_fallback
    \/ graphql_query_error

Spec == Init /\ [][Next]_vars

\* the outcome of a resolution that has ended
Outcome ==
    [done |-> TRUE, id |-> self.id, cluster_id |-> self.cluster_id,
     dataguard |-> self.dataguard, err |-> err, msg |-> msg]

\* [x[::-1] for every physicalPath] when rev, the catalog as it is otherwise
PathOrder(cat, rev) ==
    [i \in 1..Len(cat) |->
        IF rev
        THEN [cat[i] EXCEPT !.physicalPath =
                [k \in 1..Len(@) |-> @[Len(@) + 1 - k]]]
        ELSE cat[i]]

\* The same reference is resolved a second time on a new connection, while
\* the API returns the same nodes in another order
resolve_again ==
    /\ pc \in {"resolved", "exit"}
    /\ ~first.done
    /\ err # "TransportError"
    /\ first' = Outcome
    /\ \E p \in Permutations(1..Len(nodes)), rev \in BOOLEAN :
          nodes' = PathOrder([i \in 1..Len(nodes) |-> nodes[p[i]]], rev)
    /\ self' = NewDatabase(args)
    /\ name_match_databases' = <<>>
    /\ dg_ids' = <<>>
    /\ branch' = "none"
    /\ pc' = IF TruthyName(args.cluster_name) THEN "cluster_step1" ELSE "query_databases"
    /\ err' = "none"
    /\ msg' = "none"
    /\ deleted' = 0
    /\ used_after_release' = FALSE
    /\ UNCHANGED <<args, cmd, targetvars, sessionvars, pool>>

NextOrder ==
    \/ get_cluster_id
    \/ get_oracle_db_id
    \/ get_oracle_db_id_fallback
    \/ graphql_query_error
    \/ resolve_again

SpecOrder == Init /\ [][NextOrder]_vars


----------------------------------------------------------------------------
(* OracleTarget: resolution of the host or RAC a mount is made on *)

\* oracleTopLevelDescendants(typeFilter: OracleHost) with NAME, IS_RELIC =
\* false and CLUSTER_ID
oracleHosts(cat, name, cluster_id) ==
    LET Hit(h) == h.name = name /\ h.isRelic = FALSE /\ h.cluster.id = cluster_id
    IN SelectSeq(cat, Hit)

\* oracleTopLevelDescendants(typeFilter: OracleRac) with NAME, IS_RELIC =
\* false and CLUSTER_ID
oracleRacsByName(cat, name, cluster_id) ==
    LET Hit(r) == r.name = name /\ r.isRelic = FALSE /\ r.cluster.id = cluster_id
    IN SelectSeq(cat, Hit)

\* oracleTopLevelDescendants(typeFilter: OracleRac) with IS_RELIC = false and
\* CLUSTER_ID only
oracleRacsOfCluster(cat, cluster_id) ==
    LET Hit(r) == r.isRelic = FALSE /\ r.cluster.id = cluster_id
    IN SelectSeq(cat, Hit)

\* the constructor of OracleTarget returned
TargetResolved ==
    /\ pc' = "resolved"
    /\ UNCHANGED <<err, msg, deleted>>

\* OracleTarget.get_oracle_host_id
get_oracle_host_id ==
    /\ pc = "query_hosts"
    /\ NoteQuery
    /\ LET oracle_hosts == oracleHosts(hosts, target.name, target.cluster_id) IN
       IF Len(oracle_hosts) = 0
       THEN /\ ReleaseAndRaise("OracleTargetError", "no_hosts_found")
            /\ UNCHANGED target
       ELSE IF Len(oracle_hosts) = 1
       THEN /\ target' = [target EXCEPT !.id = oracle_hosts[1].id]
            /\ TargetResolved
       \* `self.self.cluster_id` raises AttributeError on the first host of
       \* the loop, before any release of the session
       ELSE /\ err' = "AttributeError"
            /\ msg' = "none"
            /\ pc' = "exit"
            /\ UNCHANGED <<target, deleted>>
    /\ UNCHANGED <<sessionvars, dbvars, hosts, racs, cmd, pool, first>>

\* OracleTarget.get_oracle_rac_id
get_oracle_rac_id ==
    /\ pc = "query_racs"
    /\ NoteQuery
    /\ LET oracle_racs == oracleRacsByName(racs, target.name, target.cluster_id) IN
       IF Len(oracle_racs) = 0
       THEN /\ pc' = "query_racs_by_host"
            /\ UNCHANGED <<target, err, msg, deleted>>
       ELSE IF Len(oracle_racs) = 1
       THEN /\ target' = [target EXCEPT !.id = oracle_racs[1].id,
                                         !.rac_name = oracle_racs[1].name]
            /\ TargetResolved
       ELSE /\ ReleaseAndRaise("OracleTargetError", "multiple_hosts_found")
            /\ UNCHANGED target
    /\ UNCHANGED <<sessionvars, dbvars, hosts, racs, cmd, pool, first>>

\* the RACs appended to rac_matches: one entry for every node whose name
\* contains the target name, compared in lower case
RECURSIVE RacMatches(_, _)
RacMatches(oracle_racs, name) ==
    IF oracle_racs = <<>> THEN <<>>
    ELSE LET rac == Head(oracle_racs)
             Hit(node) == Contains(Lower(name), Lower(node.nodeName))
             hits == SelectSeq(rac.nodes, Hit)
         IN [i \in 1..Len(hits) |-> rac] \o RacMatches(Tail(oracle_racs), name)

\* OracleTarget.get_oracle_rac_id_by_host
get_oracle_rac_id_by_host ==
    /\ pc = "query_racs_by_host"
    /\ NoteQuery
    /\ LET oracle_racs == oracleRacsOfCluster(racs, target.cluster_id)
           rac_matches == RacMatches(oracle_racs, target.name)
       IN
       IF Len(oracle_racs) = 0
       THEN /\ ReleaseAndRaise("OracleTargetError", "no_racs_on_cluster")
            /\ UNCHANGED target
       ELSE IF Len(rac_matches) = 0
       THEN /\ ReleaseAndRaise("OracleTargetError", "no_rac_on_host")
            /\ UNCHANGED target
       ELSE IF Len(rac_matches) = 1
       THEN /\ target' = [target EXCEPT !.id = rac_matches[1].id,
                                         !.rac_name = oracle_racs[1].name]
            /\ TargetResolved
       ELSE /\ ReleaseAndRaise("OracleTargetError", "multiple_racs_found")
            /\ UNCHANGED target
    /\ UNCHANGED <<sessionvars, dbvars, hosts, racs, cmd, pool, first>>

\* OracleTarget.__init__ up to the call of the resolver
NewTarget(name, cluster_id, rac) ==
    [name |-> name, cluster_id |-> cluster_id, rac |-> rac, id |-> None,
     rac_name |-> <<>>]

InitTarget ==
    /\ nodes = <<>>
    /\ args = [database_name |-> "", database_host |-> NoHost, cluster_name |-> ""]
    /\ self = NewDatabase(args)
    /\ name_match_databases = <<>>
    /\ dg_ids = <<>>
    /\ branch = "none"
    /\ err = "none"
    /\ msg = "none"
    /\ deleted = 0
    /\ used_after_release = FALSE
    /\ cmd = "library"
    /\ OpenSession
    /\ mount = NoMount
    /\ pool = NoPool
    /\ first = NoOutcome
    /\ \E name \in TargetNames, cluster_id \in {"c1", "c2"}, rac \in BOOLEAN :
          /\ target = NewTarget(name, cluster_id, rac)
          /\ IF rac THEN hosts = <<>> /\ \E n \in 0..MaxNodes : racs \in RacCatalogs(n)
                    ELSE (\E n \in 0..MaxNodes : hosts \in HostCatalogs(n)) /\ racs = <<>>
          /\ pc = IF rac THEN "query_racs" ELSE "query_hosts"

NextTarget ==
    \/ get_oracle_host_id
    \/ get_oracle_rac_id
    \/ get_oracle_rac_id_by_host
    \/ graphql_query_error

SpecTarget == InitTarget /\ [][NextTarget]_vars

----------------------------------------------------------------------------
(* The command line entry points, from the point where RubrikConnection has *)
(* been constructed                                                         *)

Commands == {"mount_info", "backup_mount", "backup_report", "db_mount"}

\* the run ends without an exception
Return ==
    /\ pc' = "exit"
    /\ UNCHANGED <<err, msg>>

\* an exception that nothing catches ends the run
Uncaught(e) ==
    /\ err' = e
    /\ msg' = "none"
    /\ pc' = "exit"

\* rubrik_oracle_mount_info.cli: with a database name the body is `pass`;
\* without one it calls OracleDatabase.get_oracle_mounts, which the class
\* does not define
cli_mount_info ==
    /\ pc = "cli"
    /\ cmd = "mount_info"
    /\ IF TruthyName(args.database_name)
       THEN Return
       ELSE Uncaught("AttributeError")
    /\ UNCHANGED <<sessionvars, dbvars, targetvars, deleted, used_after_release, cmd, pool, first>>

\* rubrik_oracle_backup_mount.cli up to its first query: the construction
\* of the OracleDatabase, or the listing of all databases
cli_backup_mount ==
    /\ pc = "cli"
    /\ cmd = "backup_mount"
    /\ IF TruthyName(args.database_name)
       THEN /\ self' = NewDatabase(args)
            /\ pc' = "query_databases"
       ELSE /\ pc' = "list_databases"
            /\ UNCHANGED self
    /\ UNCHANGED <<nodes, args, name_match_databases, dg_ids, branch, err, msg,
                   deleted, used_after_release, cmd, pool, first, targetvars, sessionvars>>

\* OracleDatabase.get_details
get_details ==
    /\ pc = "get_details"
    /\ NoteQuery
    /\ pc' = "get_log_backup_details"
    /\ UNCHANGED <<sessionvars, dbvars, targetvars, err, msg, deleted, cmd, pool, first>>

\* OracleDatabase.get_log_backup_details
get_log_backup_details ==
    /\ pc = "get_log_backup_details"
    /\ NoteQuery
    /\ pc' = "get_recovery_ranges"
    /\ UNCHANGED <<sessionvars, dbvars, targetvars, err, msg, deleted, cmd, pool, first>>

\* OracleDatabase.get_recovery_ranges
get_recovery_ranges ==
    /\ pc = "get_recovery_ranges"
    /\ NoteQuery
    /\ pc' = "print_details"
    /\ UNCHANGED <<sessionvars, dbvars, targetvars, err, msg, deleted, cmd, pool, first>>

\* rubrik_oracle_backup_mount.cli from the printing of the details to the
\* end: a database on a RAC costs one more query (get_rac_details), which
\* may raise; then the session is released
cli_backup_mount_print ==
    /\ pc = "print_details"
    /\ \E on_rac \in BOOLEAN, answered \in BOOLEAN :
          IF ~self.dataguard /\ on_rac
          THEN /\ NoteQuery
               /\ IF answered
                  THEN delete_session /\ Return
                  ELSE Uncaught("TransportError") /\ UNCHANGED deleted
          ELSE /\ delete_session
               /\ Return
               /\ UNCHANGED used_after_release
    /\ UNCHANGED <<sessionvars, dbvars, targetvars, cmd, pool, first>>

\* rubrik_oracle_backup_mount.cli without a database name: the listing
cli_list_databases ==
    /\ pc = "list_databases"
    /\ NoteQuery
    /\ delete_session
    /\ Return
    /\ UNCHANGED <<sessionvars, dbvars, targetvars, cmd, pool, first>>

\* the command without its exit(): the pool is created, and the mapping of
\* get_db_data, which is commented out, raises NameError
cli_backup_report_NoExit ==
    /\ pc = "cli"
    /\ cmd = "backup_report"
    /\ NoteQuery
    /\ \E answered \in BOOLEAN :
          IF answered
          THEN /\ delete_session
               /\ pool' = [pool EXCEPT !.created = TRUE]
               /\ Uncaught("NameError")
          ELSE Uncaught("TransportError") /\ UNCHANGED <<deleted, pool>>
    /\ UNCHANGED <<sessionvars, dbvars, targetvars, cmd, first>>
\* rubrik_oracle_backup_report.cli: one query, the release of the session
\* and exit()
cli_backup_report ==
    /\ pc = "cli"
    /\ cmd = "backup_report"
    /\ NoteQuery
    /\ \E answered \in BOOLEAN :
          IF answered
          THEN delete_session /\ Return
          ELSE Uncaught("TransportError") /\ UNCHANGED deleted
    /\ UNCHANGED <<sessionvars, dbvars, targetvars, cmd, pool, first>>

\* the options of rubrik_oracle_db_mount that decide how it ends, and the
\* state in which the mount request would end
MountOptions ==
    [no_wait : BOOLEAN, timeout : 0..MaxTimeout, status : RequestStatuses]

\* rubrik_oracle_db_mount: the module names rbs_oracle_common, which it never
\* imports, in the base of RubrikOracleDBMountError (a class statement that
\* runs when the module is loaded, before cli is called) and again in the
\* first statement of cli after the logging set-up, so the command ends with
\* NameError before a connection exists
cli_db_mount ==
    /\ pc = "cli"
    /\ cmd = "db_mount"
    /\ Uncaught("NameError")
    /\ UNCHANGED <<sessionvars, dbvars, targetvars, deleted, used_after_release, cmd, pool, first>>

InitCli ==
    /\ cmd \in Commands
    /\ IF cmd = "backup_mount"
       THEN /\ \E n \in 0..MaxNodes : nodes \in Catalogs(n)
            /\ args \in [database_name : DbNames \cup {""},
                          database_host : {NoHost} \cup HostNames,
                          cluster_name : {""}]
       ELSE /\ nodes = <<>>
            /\ args \in [database_name : IF cmd = "mount_info" THEN {"", "N1"} ELSE {""},
                          database_host : {NoHost},
                          cluster_name : {""}]
    /\ self = NewDatabase(args)
    /\ name_match_databases = <<>>
    /\ dg_ids = <<>>
    /\ branch = "none"
    /\ pc = "cli"
    /\ err = "none"
    /\ msg = "none"
    /\ deleted = 0
    /\ used_after_release = FALSE
    /\ hosts = <<>>
    /\ racs = <<>>
    /\ target = NoTarget
    /\ IF cmd = "db_mount"
       THEN NoSession /\ mount \in MountOptions
       ELSE OpenSession /\ mount = NoMount
    /\ pool = NoPool
    /\ first = NoOutcome

NextCli ==
    \/ cli_db_mount
    \/ cli_mount_info
    \/ cli_backup_mount
    \/ get_oracle_db_id
    \/ get_oracle_db_id_fallback
    \/ get_details
    \/ get_log_backup_details
    \/ get_recovery_ranges
    \/ cli_backup_mount_print
    \/ cli_list_databases
    \/ cli_backup_report
    \/ graphql_query_error

SpecCli == InitCli /\ [][NextCli]_vars

----------------------------------------------------------------------------
(* Opening, using and closing the session *)

ConfigKeys == {"client_id", "client_secret", "name", "access_token_uri"}

\* `self.config = json.load(config_file)` and the loop that turns empty and
\* blank values into None: the loaded object replaces the defaults, so a key
\* the file does not have is not a key of self.config
LoadKeyfile(file) ==
    IF ~file.exists THEN DefaultConfig
    ELSE [k \in ConfigKeys |->
            IF file[k] = Absent THEN Absent
            ELSE IF TruthyValue(file[k]) /\ TruthyValue(Strip(file[k]))
                 THEN file[k] ELSE None]

\* `if not self.config[k]: self.config[k] = os.environ.get('rsc_' + k)`
FromEnvironment(config, k) ==
    IF TruthyValue(config[k]) THEN config
    ELSE [config EXCEPT ![k] = environ[k]]

\* `raise <error>(<message>)` with no release of the session
Raise(e, m) ==
    /\ err' = e
    /\ msg' = m
    /\ pc' = "exit"

\* RubrikConnection.__init__ up to the POST: the credentials
load_credentials ==
    /\ pc = "open"
    /\ LET c0 == LoadKeyfile(keyfile)
           c1 == FromEnvironment(c0, "client_id")
           c2 == FromEnvironment(c1, "client_secret")
           c3 == FromEnvironment(c2, "access_token_uri")
       IN
       \* self.config[k] of a key the file does not have raises KeyError
       IF c0.client_id = Absent
       THEN Raise("KeyError", "none") /\ conn' = [conn EXCEPT !.config = c0]
       ELSE IF c0.client_secret = Absent
       THEN Raise("KeyError", "none") /\ conn' = [conn EXCEPT !.config = c1]
       ELSE IF c0.access_token_uri = Absent
       THEN Raise("KeyError", "none") /\ conn' = [conn EXCEPT !.config = c2]
       ELSE IF \E k \in CredentialKeys : ~TruthyValue(c3[k])
       THEN Raise("RbsOracleConnectionError", "no_credentials")
            /\ conn' = [conn EXCEPT !.config = c3]
       \* the payload reads self.config['name']
       ELSE IF c3.name = Absent
       THEN Raise("KeyError", "none") /\ conn' = [conn EXCEPT !.config = c3]
       ELSE /\ conn' = [conn EXCEPT !.config = c3]
            /\ pc' = "post"
            /\ UNCHANGED <<err, msg>>
    /\ UNCHANGED <<dbvars, targetvars, deleted, used_after_release, cmd, pool, first,
                   keyfile, environ, response, wait, mount>>

\* `'access_token' in response_json`
HasAccessToken_Always(fields) == TRUE
HasAccessToken(fields) == "access_token" \in fields

\* RubrikConnection.__init__ from the POST to the end: a status other than
\* 200 is logged and nothing else
request_token ==
    /\ pc = "post"
    /\ IF response.status = 0
       THEN /\ Raise("ConnectionError", "none")
            /\ conn' = [conn EXCEPT !.posts = @ + 1]
       ELSE IF ~response.json
       THEN /\ Raise("JSONDecodeError", "none")
            /\ conn' = [conn EXCEPT !.posts = @ + 1]
       ELSE IF ~HasAccessToken(response.fields)
       THEN /\ Raise("RbsOracleConnectionError", "no_access_token")
            /\ conn' = [conn EXCEPT !.posts = @ + 1]
       ELSE /\ conn' = [conn EXCEPT !.posts = @ + 1, !.access_token = "v",
                                    !.headers = TRUE]
            /\ pc' = "connected"
            /\ UNCHANGED <<err, msg>>
    /\ UNCHANGED <<dbvars, targetvars, deleted, used_after_release, cmd, pool, first,
                   keyfile, environ, response, wait, mount>>

\* RubrikConnection.graphql_query on the open session: client.execute
\* answers or raises
graphql_query ==
    /\ pc = "connected"
    /\ NoteQuery
    /\ conn' = [conn EXCEPT !.executed = TRUE]
    /\ \E answered \in BOOLEAN :
          IF answered
          THEN UNCHANGED <<pc, err, msg>>
          ELSE Raise("TransportError", "none")
    /\ UNCHANGED <<dbvars, targetvars, deleted, cmd, pool, first,
                   keyfile, environ, response, wait, mount>>

\* the answers to the DELETE of the session: status 0 stands for no answer
\* at all (requests.delete raises)
DeleteStatuses == {0, 204, 401, 500}

\* RubrikConnection.delete_session with the outcome of its DELETE request:
\* the call is not guarded, a status other than 204 is logged
delete_session_request ==
    /\ pc = "connected"
    /\ delete_session
    /\ \E status \in DeleteStatuses :
          IF status = 0
          THEN Raise("ConnectionError", "delete_session")
          ELSE /\ pc' = "closed"
               /\ UNCHANGED <<err, msg>>
    /\ UNCHANGED <<dbvars, targetvars, used_after_release, cmd, pool, first, sessionvars>>

\* the wall clock is counted in units of one sleep of the loop (10 seconds):
\* a minute of timeout is six of them
UnitsPerMinute == 6

\* RubrikConnection.async_requests_wait up to the first test of the loop:
\* the clock is read twice, dt units apart
async_requests_wait ==
    /\ pc = "connected"
    /\ \E timeout \in 0..MaxTimeout, dt \in 0..MaxDrift, status \in RequestStatuses :
          /\ wait' = [status |-> status, timeout |-> timeout, elapsed |-> dt,
                      polls |-> 0, sleeps |-> 0, oracle_request |-> None]
          /\ pc' = IF dt < timeout * UnitsPerMinute THEN "wait_poll" ELSE "wait_check"
    /\ UNCHANGED <<dbvars, targetvars, err, msg, deleted, used_after_release, cmd, pool, first,
                   keyfile, environ, response, conn, mount>>

\* the body of the loop: the arguments of the call of graphql_query are
\* evaluated first, and `self.cdm_timeout` is not an attribute of
\* RubrikConnection, so no query is sent and no status is read
async_requests_wait_poll ==
    /\ pc = "wait_poll"
    /\ Raise("AttributeError", "cdm_timeout")
    /\ UNCHANGED <<dbvars, targetvars, deleted, used_after_release, cmd, pool, first, sessionvars>>

\* after the loop: `oracle_request['status']` of the last answer
async_requests_wait_check ==
    /\ pc = "wait_check"
    /\ IF wait.oracle_request = None
       THEN Raise("TypeError", "oracle_request") /\ UNCHANGED deleted
       ELSE IF wait.oracle_request \notin terminal_states
       THEN ReleaseAndRaise("RbsOracleConnectionError", "timeout")
       ELSE /\ pc' = "connected"
            /\ UNCHANGED <<err, msg, deleted>>
    /\ UNCHANGED <<dbvars, targetvars, used_after_release, cmd, pool, first, sessionvars>>

InitConn ==
    /\ nodes = <<>>
    /\ args = [database_name |-> "", database_host |-> NoHost, cluster_name |-> ""]
    /\ self = NewDatabase(args)
    /\ name_match_databases = <<>>
    /\ dg_ids = <<>>
    /\ branch = "none"
    /\ pc = "open"
    /\ err = "none"
    /\ msg = "none"
    /\ deleted = 0
    /\ used_after_release = FALSE
    /\ cmd = "library"
    /\ hosts = <<>>
    /\ racs = <<>>
    /\ target = NoTarget
    /\ keyfile \in Keyfiles \cup {NoKeyfile}
    /\ environ \in Environments
    /\ response \in Responses
    /\ conn = NewConnection
    /\ wait = NoWait
    /\ mount = NoMount
    /\ pool = NoPool
    /\ first = NoOutcome

NextConn ==
    \/ load_credentials
    \/ request_token
    \/ graphql_query
    \/ delete_session_request
    \/ async_requests_wait
    \/ async_requests_wait_poll
    \/ async_requests_wait_check

SpecConn == InitConn /\ [][NextConn]_vars

----------------------------------------------------------------------------
(* Properties of database resolution *)

IsMember(n) == n.dataGuardType = "DATA_GUARD_MEMBER"
Cands == name_match_databases
CandIdx == 1..Len(name_match_databases)
NoHostGiven == ~TruthyHost(args.database_host)
NoClusterGiven == ~TruthyName(args.cluster_name)
MultiDone == branch = "multi" /\ pc \in {"resolved", "exit"}
AmbiguityError ==
    /\ pc = "exit"
    /\ err = "OracleDatabaseError"
    /\ msg \in {"multiple_databases", "multiple_dg_groups"}
\* the candidates with a physical-path entry whose name has the host string
\* as a contiguous part
IsPartOf(sub, s) == \E i, j \in 0..Len(s) : i <= j /\ SubSeq(s, i + 1, j) = sub
HostHits ==
    { i \in CandIdx :
        \E k \in 1..Len(Cands[i].physicalPath) :
            IsPartOf(args.database_host, Cands[i].physicalPath[k]) }

\* C1: with exactly one step-1 candidate, resolution succeeds; the resolved
\* id is the candidate's own id when it is no Data-Guard member, and the id of
\* its Data-Guard group (not its own id), with the dataguard flag set, when it
\* is one.
C1_OneCandidate ==
    branch = "one" =>
        /\ pc = "resolved"
        /\ Len(Cands) = 1
        /\ IF IsMember(Cands[1])
           THEN /\ self.id = Cands[1].dataGuardGroup.id
                /\ self.id # Cands[1].id
                /\ self.dataguard = TRUE
           ELSE self.id = Cands[1].id

C1_Witness ==
    /\ branch = "one"
    /\ pc = "resolved"
    /\ IsMember(Cands[1])
    /\ self.id = "dg2"

\* C2: with two or more candidates and no host, resolution succeeds only if
\* every candidate is a Data-Guard member of one and the same group; in every
\* other case it fails with an ambiguity error and sets no id.
C2_TieBreak ==
    (MultiDone /\ NoHostGiven) =>
        IF \A i \in CandIdx : IsMember(Cands[i])
               /\ Cands[i].dataGuardGroup.id = Cands[1].dataGuardGroup.id
        THEN TRUE
        ELSE AmbiguityError /\ self.id = None

\* C3: with no host and no cluster, two or more candidates that all belong
\* to the same Data-Guard group g resolve to g with the dataguard flag set,
\* whatever the members' clusters are.
C3_SameGroupCollapses ==
    (/\ MultiDone /\ NoHostGiven /\ NoClusterGiven
     /\ \A i \in CandIdx : IsMember(Cands[i])
            /\ Cands[i].dataGuardGroup.id = Cands[1].dataGuardGroup.id)
    => (/\ pc = "resolved"
        /\ self.id = Cands[1].dataGuardGroup.id
        /\ self.dataguard = TRUE)

\* C4: with no host, candidates that are Data-Guard members of two or more
\* distinct groups make resolution fail with an ambiguity error, and no id
\* is set.
C4_DistinctGroupsFail ==
    (/\ MultiDone /\ NoHostGiven
     /\ \A i \in CandIdx : IsMember(Cands[i])
     /\ \E i, j \in CandIdx :
            Cands[i].dataGuardGroup.id # Cands[j].dataGuardGroup.id)
    => (AmbiguityError /\ self.id = None /\ deleted = 1)

C4_Witness ==
    /\ MultiDone /\ NoHostGiven
    /\ \A i \in CandIdx : IsMember(Cands[i])
    /\ \E i, j \in CandIdx : Cands[i].dataGuardGroup.id # Cands[j].dataGuardGroup.id
    /\ err = "OracleDatabaseError"
    /\ msg = "multiple_dg_groups"

\* C5: with two or more candidates and a host, when exactly one candidate has
\* a physical-path entry whose name contains the host string, resolution
\* returns that candidate's id (its group's id for a Data-Guard member) with
\* that candidate's cluster id, cluster name and timezone.
C5_HostUnique ==
    (MultiDone /\ ~NoHostGiven /\ Cardinality(HostHits) = 1) =>
        \A i \in HostHits :
            /\ pc = "resolved"
            /\ self.id = IF IsMember(Cands[i]) THEN Cands[i].dataGuardGroup.id
                                               ELSE Cands[i].id
            /\ self.cluster_id = Cands[i].cluster.id
            /\ self.cluster_name = Cands[i].cluster.name
            /\ self.timezone = Cands[i].cluster.timezone

C5_Witness ==
    /\ MultiDone /\ ~NoHostGiven /\ Cardinality(HostHits) = 1
    /\ pc = "resolved"
    /\ \E i \in HostHits : ~IsMember(Cands[i]) /\ self.id = Cands[i].id
                             /\ Cands[i].physicalPath[1] # args.database_host

\* C6: with two or more candidates and a host, when two or more candidates
\* have a physical-path entry whose name contains the host string, resolution
\* fails with an ambiguity error and resolves to none of them.
C6_HostStillAmbiguous ==
    (MultiDone /\ ~NoHostGiven /\ Cardinality(HostHits) >= 2) =>
        (pc = "exit" /\ err = "OracleDatabaseError")

\* C7: with two or more candidates and a host, when no candidate's physical
\* path contains the host string, resolution releases the session and fails
\* with an OracleDatabaseError that carries a message.
C7_HostZero ==
    (MultiDone /\ ~NoHostGiven /\ HostHits = {}) =>
        (/\ pc = "exit"
         /\ deleted = 1
         /\ err = "OracleDatabaseError"
         /\ msg # "none")

\* the groups, among those the fallback query returns, that have a member
\* whose dbUniqueName is the database name
FallbackGroups ==
    { g \in {"dg1", "dg2"} :
        /\ NoClusterGiven \/ ClusterRec(GroupCluster(g)).name = args.cluster_name
        /\ \E i \in 1..Len(nodes) :
              /\ IsMember(nodes[i])
              /\ nodes[i].dataGuardGroup.id = g
              /\ nodes[i].dbUniqueName = args.database_name }

FallbackDone ==
    /\ branch = "zero"
    /\ pc \in {"resolved", "exit"}
    /\ err \notin {"TransportError", "OracleClusterError"}

\* C8: when step 1 yields no candidate, the members of the Data-Guard groups
\* whose dbUniqueName is the database name decide: all in one group resolves
\* to that group with the dataguard flag set, two or more groups is an
\* ambiguity error, no member at all is a not-found error.
C8_Fallback ==
    FallbackDone =>
        /\ Cardinality(FallbackGroups) = 1 =>
              /\ pc = "resolved"
              /\ self.id \in FallbackGroups
              /\ self.dataguard = TRUE
        /\ Cardinality(FallbackGroups) >= 2 =>
              /\ pc = "exit"
              /\ err = "OracleDatabaseError"
              /\ msg = "multiple_dg_groups"
              /\ self.id = None
        /\ FallbackGroups = {} =>
              /\ pc = "exit"
              /\ err = "OracleDatabaseError"
              /\ msg = "no_database_found"
              /\ self.id = None

C8_Witness ==
    /\ FallbackDone
    /\ pc = "resolved"
    /\ self.id = "dg1"
    /\ Cardinality({ i \in 1..Len(nodes) : nodes[i].dbUniqueName = args.database_name }) = 2

----------------------------------------------------------------------------
(* Properties of the session release *)

ResolverErrors == {"OracleDatabaseError", "OracleClusterError", "OracleTargetError"}

\* C9: every failure of a resolution (no match, or several matches that do
\* not collapse) releases the session before the error surfaces, and the
\* error is one of the resolvers' own error types.
C9_FailureReleases ==
    (pc = "exit" /\ err \notin {"none", "TransportError"}) =>
        (deleted = 1 /\ err \in ResolverErrors)

\* C10: in every run of a command whose connection was constructed,
\* delete_session has been called exactly once when the command ends.
C10_ReleasedExactlyOnce ==
    pc = "exit" => deleted = 1

----------------------------------------------------------------------------
(* Properties of the session *)

\* the credential is set neither in the key file nor in the environment
UnsetAfterBoth(k) ==
    /\ ~keyfile.exists \/ keyfile[k] \in {Absent, "", Blank}
    /\ environ[k] \in {None, ""}

\* C11: if one of client_id, client_secret and access_token_uri is unset
\* after the key file and the environment were checked, the construction
\* fails with RbsOracleConnectionError and no POST was sent.
C11_MissingCredentialFails ==
    (pc # "open" /\ \E k \in CredentialKeys : UnsetAfterBoth(k))
        => (/\ pc = "exit"
            /\ err = "RbsOracleConnectionError"
            /\ msg = "no_credentials"
            /\ conn.posts = 0)

\* C12: after a token answer with a status other than 200, whatever its
\* body, the construction has failed with RbsOracleConnectionError, no token
\* and no Authorization header are stored, and no query was executed.
C12_Non200Fails ==
    (conn.posts > 0 /\ response.status \notin {0, 200})
        => (/\ pc = "exit"
            /\ err = "RbsOracleConnectionError"
            /\ conn.access_token = None
            /\ ~conn.headers
            /\ ~conn.executed)

C14_CloseNeverThrows ==
    deleted > 0 => (pc = "closed" /\ err = "none")

\* C15: a wait with time left, for a request that is in a terminal state at
\* the first poll, returns that state after one poll and no sleep.
C15_TerminalAtFirstPoll ==
    (/\ wait.status \in terminal_states
     /\ wait.elapsed < wait.timeout * UnitsPerMinute
     /\ pc \in {"connected", "exit"})
        => (/\ pc = "connected"
            /\ err = "none"
            /\ wait.oracle_request = wait.status
            /\ wait.polls = 1
            /\ wait.sleeps = 0)

\* C16: a wait with a timeout of 0 minutes for a request that stays RUNNING
\* polls once and ends with the timeout error, and with no other error.
C16_ZeroTimeout ==
    (wait.status = "RUNNING" /\ wait.timeout = 0 /\ pc \in {"connected", "exit"})
        => (/\ pc = "exit"
            /\ err = "RbsOracleConnectionError"
            /\ msg = "timeout"
            /\ wait.polls = 1)

\* C17: a wait that is past its deadline while the request is not in a
\* terminal state has released the session and ended with the timeout
\* error.
C17_DeadlineReleases ==
    (/\ wait.status \in RequestStatuses \ terminal_states
     /\ wait.elapsed >= wait.timeout * UnitsPerMinute
     /\ pc \in {"connected", "exit"})
        => (/\ deleted = 1
            /\ err = "RbsOracleConnectionError"
            /\ msg = "timeout")

----------------------------------------------------------------------------
(* Properties of the mount command *)

\* C18: a waiting mount whose request ends FAILED or CANCELED has released
\* the session and ended with RubrikOracleDBMountError.
C18_FailedMountRaises ==
    (/\ cmd = "db_mount"
     /\ pc = "exit"
     /\ ~mount.no_wait
     /\ mount.status \in terminal_states \ {"SUCCEEDED"})
        => (deleted = 1 /\ err = "RubrikOracleDBMountError")

\* C19: a mount with no_wait has returned without an error, released the
\* session and never polled the request.
C19_NoWaitReturns ==
    (cmd = "db_mount" /\ pc = "exit" /\ mount.no_wait)
        => (err = "none" /\ deleted = 1 /\ wait.polls = 0)

----------------------------------------------------------------------------
(* Properties of target resolution *)

\* the hosts the exact-name host lookup is about
HostObjects ==
    { i \in 1..Len(hosts) :
        /\ hosts[i].name = target.name
        /\ ~hosts[i].isRelic
        /\ hosts[i].cluster.id = target.cluster_id }

\* the RACs the exact-name RAC lookup is about
RacObjects ==
    { i \in 1..Len(racs) :
        /\ racs[i].name = target.name
        /\ ~racs[i].isRelic
        /\ racs[i].cluster.id = target.cluster_id }

\* the RACs of the cluster with a node whose name holds the target name,
\* whatever the case of the letters
ScanObjects ==
    { i \in 1..Len(racs) :
        /\ ~racs[i].isRelic
        /\ racs[i].cluster.id = target.cluster_id
        /\ \E k \in 1..Len(racs[i].nodes) :
              IsPartOf(Lower(target.name), Lower(racs[i].nodes[k].nodeName)) }

TargetAmbiguous == pc = "exit" /\ err = "OracleTargetError" /\ deleted = 1

\* C20: when a target resolution has ended, at the stage that decided it (the
\* host lookup, the RAC lookup, or the scan of the cluster's RACs after an
\* empty RAC lookup) more than one matching object means OracleTargetError
\* with the session released, and exactly one means that object's id.
C20_StagesAgree ==
    (pc \in {"resolved", "exit"} /\ err # "TransportError")
        => /\ ~target.rac =>
                /\ Cardinality(HostObjects) > 1 => TargetAmbiguous
                /\ \A i \in HostObjects :
                      HostObjects = {i} => (pc = "resolved" /\ target.id = hosts[i].id)
           /\ target.rac =>
                /\ Cardinality(RacObjects) > 1 => TargetAmbiguous
                /\ \A i \in RacObjects :
                      RacObjects = {i} => (pc = "resolved" /\ target.id = racs[i].id)
                /\ RacObjects = {} =>
                      /\ Cardinality(ScanObjects) > 1 => TargetAmbiguous
                      /\ \A i \in ScanObjects :
                            ScanObjects = {i}
                                => (pc = "resolved" /\ target.id = racs[i].id)

----------------------------------------------------------------------------
(* Properties of credential sourcing, candidates, scans and ordering *)

\* the value the credential should have: the key file's when it is there and
\* not blank, the environment's otherwise
Sourced(k) ==
    IF keyfile.exists /\ keyfile[k] \notin {Absent, "", Blank}
    THEN keyfile[k] ELSE environ[k]

\* C21: when every credential is supplied by the key file or, for a field
\* the file lacks or leaves blank, by the environment, the construction does
\* not fail on the credentials and each one has the key file's value when
\* that is present and not blank and the environment's value otherwise.
C21_CredentialSourcing ==
    (/\ pc # "open"
     /\ keyfile.exists => keyfile.name # Absent
     /\ \A k \in CredentialKeys : TruthyValue(Sourced(k)))
        => (/\ err # "KeyError"
            /\ msg # "no_credentials"
            /\ \A k \in CredentialKeys : conn.config[k] = Sourced(k))

\* the objects step 1 is meant to count: same name, not relic, not
\* replicated, not a live mount, and on the named cluster when one is named
Step1Objects ==
    { i \in 1..Len(nodes) :
        /\ nodes[i].name = args.database_name
        /\ ~nodes[i].isRelic
        /\ ~nodes[i].isReplicated
        /\ ~nodes[i].isLiveMount
        /\ TruthyName(args.cluster_name) => nodes[i].cluster.id = self.cluster_id }

\* C22: once step 1 has run, with or without a cluster name, its candidates
\* are exactly the objects of that name that are not relic, not replicated
\* and not live mounts.
C22_CandidateSet ==
    branch # "none"
        => { name_match_databases[i].id : i \in 1..Len(name_match_databases) }
               = { nodes[i].id : i \in Step1Objects }

\* C23: a wait with time left for a request that is not in a terminal state
\* keeps polling: it has not returned, and it has not ended in any way but
\* the timeout.
C23_InFlightKeepsPolling ==
    (/\ wait.status \in RequestStatuses \ terminal_states
     /\ wait.elapsed < wait.timeout * UnitsPerMinute
     /\ pc \in {"connected", "exit"})
        => (pc = "exit" /\ err = "RbsOracleConnectionError" /\ msg = "timeout")

\* C24: when no RAC of the cluster has the target name and the scan of the
\* cluster's RACs has ended, one matching RAC (whatever the number of its
\* matching nodes) means that RAC's id, and no matching RAC means
\* OracleTargetError.
C24_ScanByNode ==
    (/\ target.rac
     /\ RacObjects = {}
     /\ pc \in {"resolved", "exit"}
     /\ err # "TransportError")
        => /\ \A i \in ScanObjects :
                ScanObjects = {i} => (pc = "resolved" /\ target.id = racs[i].id)
           /\ ScanObjects = {} =>
                (/\ pc = "exit"
                 /\ err = "OracleTargetError"
                 /\ msg \in {"no_racs_on_cluster", "no_rac_on_host"})

GroupIds == { GroupList[i] : i \in 1..Len(GroupList) }

\* C26: after a successful resolution the dataguard flag is set exactly when
\* the resolved id is the id of a Data-Guard group.
C26_FlagMatchesId ==
    pc = "resolved" => (self.dataguard <=> self.id \in GroupIds)

\* C27: after a successful RAC resolution rac_name is the name of the RAC
\* whose id is stored in id.
C27_RacNameOfId ==
    (target.rac /\ pc = "resolved")
        => \E i \in 1..Len(racs) :
              racs[i].id = target.id /\ racs[i].name = target.rac_name

\* C30: a wait that has ended has returned a terminal state or failed with
\* the timeout error.
C30_WaitEnds ==
    (wait.status # None /\ pc \in {"connected", "exit"})
        => \/ pc = "connected" /\ wait.oracle_request \in terminal_states
           \/ pc = "exit" /\ err = "RbsOracleConnectionError" /\ msg = "timeout"

\* C25: the reporting command never creates its worker pool, starts no
\* worker and appends nothing to element_list; a run that got its answer has
\* released the session once and ended.
C25_ReportSingleThreaded ==
    cmd = "backup_report"
        => (/\ ~pool.created
            /\ pool.started = 0
            /\ pool.element_list = <<>>
            /\ (pc = "exit" /\ err = "none") => deleted = 1)

C25_Witness ==
    /\ cmd = "backup_report"
    /\ pc = "exit"
    /\ err = "none"
    /\ deleted = 1
    /\ used_after_release = FALSE
    /\ ~pool.created

\* C29: no graphql_query is issued on a connection whose session was
\* released.
C29_NoUseAfterRelease ==
    ~used_after_release

C29_Witness ==
    /\ pc = "exit"
    /\ deleted = 1
    /\ err = "OracleDatabaseError"
    /\ ~used_after_release

\* C28: a second resolution of the same reference over the same nodes,
\* returned in another order, ends as the first did: the same id, cluster id
\* and dataguard flag, or the same error.
C28_OrderIndependent ==
    (first.done /\ pc \in {"resolved", "exit"} /\ err # "TransportError")
        => IF err = "none"
           THEN Outcome = first
           ELSE first.err = err /\ first.msg = msg

====
